---------------------------- MODULE Spec2Model ----------------------------
(***************************************************************************)
(* A model of logparser3.py / akparser3.py (alexKleider/logparser).        *)
(*                                                                         *)
(* Text is a sequence of one-character strings, so that splitting,         *)
(* padding and comparing addresses are computed, not assumed.  A Python    *)
(* dict is a function with a finite domain.  The lists held in             *)
(* IP_Class.other are objects of a heap (heap[id] is the list's content)   *)
(* and a record refers to them by id, so that two records sharing one list *)
(* object, as join() makes them, is a state of the model.                  *)
(***************************************************************************)
EXTENDS Integers, Sequences, FiniteSets, TLC

(* ------------------------------ bounds -------------------------------- *)

\* Most IP occurrences recorded over one run (the sum of f_status_dic).
MaxIPs == 3
\* Most occurrences held by one operand of a join in JoinSpec.
MaxN == 2

(* ------------------------------- text --------------------------------- *)

\* Python's None.
None == <<"None">>

\* Code point of a character (ord()).
Ord(c) ==
    CASE c = " " -> 32 [] c = "." -> 46
      [] c = "0" -> 48 [] c = "1" -> 49 [] c = "2" -> 50 [] c = "3" -> 51
      [] c = "4" -> 52 [] c = "5" -> 53 [] c = "6" -> 54 [] c = "7" -> 55
      [] c = "8" -> 56 [] c = "9" -> 57
      [] c = "a" -> 97 [] c = "b" -> 98 [] c = "c" -> 99 [] c = "d" -> 100

\* str < str: by code point, a proper prefix first.
RECURSIVE StrLess(_, _)
StrLess(a, b) ==
    IF b = <<>> THEN FALSE
    ELSE IF a = <<>> THEN TRUE
    ELSE IF Head(a) # Head(b) THEN Ord(Head(a)) < Ord(Head(b))
    ELSE StrLess(Tail(a), Tail(b))

\* str.strip(): leading and trailing blanks removed.
RECURSIVE strip(_)
strip(s) ==
    IF s = <<>> THEN s
    ELSE IF Head(s) = " " THEN strip(Tail(s))
    ELSE IF s[Len(s)] = " " THEN strip(SubSeq(s, 1, Len(s) - 1))
    ELSE s

\* str.split(sep): cur is the part being read, acc the parts read.
RECURSIVE splitFrom(_, _, _, _)
splitFrom(s, sep, cur, acc) ==
    IF s = <<>> THEN Append(acc, cur)
    ELSE IF Head(s) = sep THEN splitFrom(Tail(s), sep, <<>>, Append(acc, cur))
    ELSE splitFrom(Tail(s), sep, Append(cur, Head(s)), acc)

split(s, sep) == splitFrom(s, sep, <<>>, <<>>)

\* The format spec ":0>3": right-aligned in a field of at least 3, filled
\* with "0"; a longer part is left as it is.
RECURSIVE pad3(_)
pad3(part) == IF Len(part) >= 3 THEN part ELSE pad3(<<"0">> \o part)

\* A faulty sortable_ip: the parts are not padded.
sortable_ip_unpadded(ip) ==
    LET parts == split(strip(ip), ".")
    IN  IF Len(parts) # 4 THEN None ELSE strip(ip)

\* akparser3.sortable_ip
sortable_ip(ip) ==
    LET parts == split(strip(ip), ".")
    IN  IF Len(parts) # 4 THEN None
        ELSE pad3(parts[1]) \o <<".">> \o pad3(parts[2]) \o <<".">>
                \o pad3(parts[3]) \o <<".">> \o pad3(parts[4])

(* ------------------------------ dicts --------------------------------- *)

EmptyDict == [x \in {} |-> x]

\* d[k] = v
Put(dict, k, v) == [x \in DOMAIN dict \cup {k} |-> IF x = k THEN v ELSE dict[x]]

\* d.setdefault(k, v), as the dict it leaves
SetDefault(dict, k, v) == IF k \in DOMAIN dict THEN dict ELSE Put(dict, k, v)

(* ---------------------------- akparser3 ------------------------------- *)

LINE_TYPES == << "invalid_user", "no_id", "break_in", "pub_key", "closed",
                 "disconnect", "listening", "ban", "unban", "already_banned" >>

\* The named groups each line type's expression provides.
KEYS_PROVIDED ==
    [ invalid_user |-> <<"user">>, no_id |-> <<>>, break_in |-> <<>>,
      pub_key |-> <<"user">>, closed |-> <<>>, disconnect |-> <<"who">>,
      listening |-> <<"listener">>, ban |-> <<>>, unban |-> <<>>,
      already_banned |-> <<>> ]

\* A line of input is kept as what the expressions of akparser3 find in it:
\*   ips    the addresses IP_EXP finds, in order,
\*   found  the line types whose RE_FORMAT expression matches,
\*   groups the groups of the match (search_result.groups()).
\* LIST_OF_IPS (logparser3 calls it list_of_IPs).
LIST_OF_IPS(line) == line.ips

\* A faulty get_log_info: the groups are given as data for every line type.
get_log_info_always_data(line) ==
    LET hits == {i \in 1..Len(LINE_TYPES) : LINE_TYPES[i] \in line.found}
    IN  IF hits = {} THEN <<>>
        ELSE LET first == CHOOSE i \in hits : \A j \in hits : i <= j
             IN  <<LINE_TYPES[first], <<line.groups>>>>

\* get_log_info: the first line type of LINE_TYPES that matches, with the
\* data gleaned: one groups() tuple per key provided, or None.  None (the
\* line, or the data) is the empty sequence: the callers only test "not x",
\* and neither a tuple nor a data list returned here is ever empty.
get_log_info(line) ==
    LET hits == {i \in 1..Len(LINE_TYPES) : LINE_TYPES[i] \in line.found}
    IN  IF hits = {} THEN <<>>
        ELSE LET first == CHOOSE i \in hits : \A j \in hits : i <= j
                 line_type == LINE_TYPES[first]
                 info_provided == KEYS_PROVIDED[line_type]
             IN  IF info_provided # <<>>
                 THEN <<line_type,
                        [i \in 1..Len(info_provided) |-> line.groups]>>
                 ELSE <<line_type, <<>>>>

(* ----------------------------- IP_Class ------------------------------- *)

arg_file_types == << "--input", "--white", "--black" >>
lf == arg_file_types[1]
wf == arg_file_types[2]
bf == arg_file_types[3]

_unclassified_IP_indicator == "solo-IP"

\* A value of IP_Class.other: an int, or a list object of the heap.
IntVal(k) == [int |-> k]
ListVal(id) == [ref |-> id]
IsInt(val) == "int" \in DOMAIN val
IsList(val) == "ref" \in DOMAIN val

\* A faulty __init__: the record made counts as an occurrence.
IP_Class_counted(ip) == [ip |-> ip, n |-> 1, other |-> EmptyDict]

\* IP_Class.__init__
IP_Class(ip) == [ip |-> ip, n |-> 0, other |-> EmptyDict]

\* IP_Class.keys
keys(self) == DOMAIN self.other

\* IP_Class.how_many
how_many(self) == self.n

\* IP_Class.increment
increment(self) == [self EXCEPT !.n = @ + 1]

\* A faulty add_other: an unrecognized line leaves no evidence.
add_other_drops_unclassified(heap, self, args, owner) ==
    IF args = <<>> THEN [heap |-> heap, self |-> self]
    ELSE IF args[2] = <<>>
    THEN [heap |-> heap,
          self |-> [self EXCEPT !.other =
                      Put(@, args[1],
                          IntVal(SetDefault(@, args[1], IntVal(0))[args[1]].int + 1))]]
    ELSE LET id == <<owner, args[1]>>
             made == args[1] \notin DOMAIN self.other
             old  == IF made THEN <<>> ELSE heap[self.other[args[1]].ref]
             at   == IF made THEN id ELSE self.other[args[1]].ref
         IN  [heap |-> Put(heap, at, Append(old, args[2])),
              self |-> [self EXCEPT !.other = SetDefault(@, args[1], ListVal(id))]]

\* A faulty add_other: an unrecognized line is counted under 'no_id'.
add_other_unclassified_as_no_id(heap, self, args0, owner) ==
    LET args == IF args0 = <<>> THEN <<"no_id", <<>>>> ELSE args0
    IN  IF args[2] = <<>>
        THEN [heap |-> heap,
              self |-> [self EXCEPT !.other =
                          Put(@, args[1],
                              IntVal(SetDefault(@, args[1], IntVal(0))[args[1]].int + 1))]]
        ELSE LET id == <<owner, args[1]>>
                 made == args[1] \notin DOMAIN self.other
                 old  == IF made THEN <<>> ELSE heap[self.other[args[1]].ref]
                 at   == IF made THEN id ELSE self.other[args[1]].ref
             IN  [heap |-> Put(heap, at, Append(old, args[2])),
                  self |-> [self EXCEPT !.other = SetDefault(@, args[1], ListVal(id))]]

\* IP_Class.add_other.  A list made here ([] of setdefault) is the heap
\* object <<owner, key>>, owner naming the record that holds it.
add_other(heap, self, args0, owner) ==
    LET args == IF args0 = <<>> THEN <<_unclassified_IP_indicator, <<>>>>
                ELSE args0
    IN  IF args[2] = <<>>
        THEN [heap |-> heap,
              self |-> [self EXCEPT !.other =
                          Put(@, args[1],
                              IntVal(SetDefault(@, args[1], IntVal(0))[args[1]].int + 1))]]
        ELSE LET id == <<owner, args[1]>>
                 made == args[1] \notin DOMAIN self.other
                 old  == IF made THEN <<>> ELSE heap[self.other[args[1]].ref]
                 at   == IF made THEN id ELSE self.other[args[1]].ref
             IN  [heap |-> Put(heap, at, Append(old, args[2])),
                  self |-> [self EXCEPT !.other = SetDefault(@, args[1], ListVal(id))]]

\* The size of one evidence bucket: the counter, or len() of the list.
Size(heap, val) == IF IsInt(val) THEN val.int ELSE Len(heap[val.ref])

RECURSIVE SumOver(_, _, _)
SumOver(heap, other, ks) ==
    IF ks = {} THEN 0
    ELSE LET k == CHOOSE x \in ks : TRUE
         IN  Size(heap, other[k]) + SumOver(heap, other, ks \ {k})

\* IP_Class.get_log_count
get_log_count(heap, self) == SumOver(heap, self.other, DOMAIN self.other)

\* A record as its values: the lists' contents in place of the objects.
Value(heap, self) ==
    [ip |-> self.ip, n |-> self.n,
     other |-> [k \in DOMAIN self.other |->
                  IF IsInt(self.other[k]) THEN self.other[k]
                  ELSE [list |-> heap[self.other[k].ref]]]]

\* Whether a value is an IP_Class instance (an int has no attribute ip).
IsIPClass(x) == "ip" \in DOMAIN x

\* The keys both records hold whose values are of different kinds
\* (int += list and list += int raise TypeError).
Mixed(self, instance) ==
    {k \in keys(self) \cap keys(instance) :
        IsInt(self.other[k]) # IsInt(instance.other[k])}

\* A faulty join: the keys only the other record holds are not taken over.
join_drops_new(heap, self, instance) ==
    IF ~IsIPClass(instance) \/ self.ip # instance.ip
    THEN [raised |-> TRUE, heap |-> heap, self |-> self]
    ELSE LET overlaps == keys(self) \cap keys(instance)
             lists == {k \in overlaps : IsList(self.other[k])}
         IN  [raised |-> FALSE,
              heap |-> [id \in DOMAIN heap |->
                         IF \E k \in lists : self.other[k].ref = id
                         THEN LET k == CHOOSE k \in lists : self.other[k].ref = id
                              IN  heap[id] \o heap[instance.other[k].ref]
                         ELSE heap[id]],
              self |-> [self EXCEPT
                         !.n = @ + instance.n,
                         !.other = [k \in keys(self) |->
                            IF k \in overlaps /\ IsInt(self.other[k])
                            THEN IntVal(self.other[k].int + instance.other[k].int)
                            ELSE self.other[k]]]]

\* A faulty join: a key both records hold takes the other record's value.
join_overwrites(heap, self, instance) ==
    IF ~IsIPClass(instance) \/ self.ip # instance.ip
    THEN [raised |-> TRUE, heap |-> heap, self |-> self]
    ELSE [raised |-> FALSE, heap |-> heap,
          self |-> [self EXCEPT
                     !.n = @ + instance.n,
                     !.other = [k \in keys(self) \cup keys(instance) |->
                        IF k \in keys(instance) THEN instance.other[k]
                        ELSE self.other[k]]]]

\* A faulty join: the occurrences are added before the operands are checked.
join_counts_first(heap, self, instance) ==
    IF ~IsIPClass(instance)
    THEN [raised |-> TRUE, heap |-> heap, self |-> self]
    ELSE IF self.ip # instance.ip
    THEN [raised |-> TRUE, heap |-> heap,
          self |-> [self EXCEPT !.n = @ + instance.n]]
    ELSE [raised |-> FALSE, heap |-> heap, self |-> self]

\* IP_Class.join.  raised: an assert fails, or instance has no attribute ip
\* (nothing is changed yet), or += meets an int and a list (self.n is
\* changed already; the keys changed before it depend on the set's order
\* and are left as they were here).  Otherwise self.n grows by instance.n,
\* "+=" adds the ints and extends self's list objects in place, and a key
\* new to self is bound to the instance's own value: for a list, to the
\* same object.
join(heap, self, instance) ==
    IF ~IsIPClass(instance) \/ self.ip # instance.ip
    THEN [raised |-> TRUE, heap |-> heap, self |-> self]
    ELSE IF Mixed(self, instance) # {}
    THEN [raised |-> TRUE, heap |-> heap,
          self |-> [self EXCEPT !.n = @ + instance.n]]
    ELSE LET self_set == keys(self)
             instance_set == keys(instance)
             overlaps == self_set \cap instance_set
             new == instance_set \ self_set
             lists == {k \in overlaps : IsList(self.other[k])}
         IN  [raised |-> FALSE,
              heap |-> [id \in DOMAIN heap |->
                         IF \E k \in lists : self.other[k].ref = id
                         THEN LET k == CHOOSE k \in lists : self.other[k].ref = id
                              IN  heap[id] \o heap[instance.other[k].ref]
                         ELSE heap[id]],
              self |-> [self EXCEPT
                         !.n = @ + instance.n,
                         !.other = [k \in self_set \cup instance_set |->
                            IF k \in new THEN instance.other[k]
                            ELSE IF k \in overlaps /\ IsInt(self.other[k])
                            THEN IntVal(self.other[k].int + instance.other[k].int)
                            ELSE self.other[k]]]]

(* ------------------------------ process ------------------------------- *)

\* A faulty body: the file's counter goes up by 2 for an address.
processIP_counts_twice(st, ip, line, f_type, f_name) ==
    LET counted == Put(st.f_status_dic, f_type,
                       Put(st.f_status_dic[f_type], f_name,
                           SetDefault(st.f_status_dic[f_type], f_name, 0)[f_name] + 2))
        byType == SetDefault(SetDefault(st.ipDic, ip, EmptyDict)[ip], f_type, EmptyDict)
    IN  IF f_type = lf
        THEN LET other == get_log_info(line)
                 made == SetDefault(byType[f_type], f_name, IP_Class(ip))[f_name]
                 added == add_other(st.heap, increment(made), other, <<ip, f_name>>)
             IN  [f_status_dic |-> counted,
                  ipDic |-> Put(st.ipDic, ip,
                                Put(byType, f_type,
                                    Put(byType[f_type], f_name, added.self))),
                  heap |-> added.heap]
        ELSE LET was == SetDefault(byType[f_type], f_name, IntVal(0))[f_name]
             IN  [f_status_dic |-> counted,
                  ipDic |-> Put(st.ipDic, ip,
                                Put(byType, f_type,
                                    Put(byType[f_type], f_name, IntVal(was.int + 1)))),
                  heap |-> st.heap]

\* The body of "for ip in ip_list" of process, on st = the globals
\* f_status_dic and ipDic with the heap of their lists.
processIP(st, ip, line, f_type, f_name) ==
    LET counted == Put(st.f_status_dic, f_type,
                       Put(st.f_status_dic[f_type], f_name,
                           SetDefault(st.f_status_dic[f_type], f_name, 0)[f_name] + 1))
        byType == SetDefault(SetDefault(st.ipDic, ip, EmptyDict)[ip], f_type, EmptyDict)
    IN  IF f_type = lf
        THEN LET other == get_log_info(line)
                 made == SetDefault(byType[f_type], f_name, IP_Class(ip))[f_name]
                 added == add_other(st.heap, increment(made), other, <<ip, f_name>>)
             IN  [f_status_dic |-> counted,
                  ipDic |-> Put(st.ipDic, ip,
                                Put(byType, f_type,
                                    Put(byType[f_type], f_name, added.self))),
                  heap |-> added.heap]
        ELSE LET was == SetDefault(byType[f_type], f_name, IntVal(0))[f_name]
             IN  [f_status_dic |-> counted,
                  ipDic |-> Put(st.ipDic, ip,
                                Put(byType, f_type,
                                    Put(byType[f_type], f_name, IntVal(was.int + 1)))),
                  heap |-> st.heap]

RECURSIVE processAll(_, _, _, _, _)
processAll(st, ip_list, line, f_type, f_name) ==
    IF ip_list = <<>> THEN st
    ELSE processAll(processIP(st, Head(ip_list), line, f_type, f_name),
                    Tail(ip_list), line, f_type, f_name)

\* A faulty reduction: of the addresses of a line of a log file the first
\* is kept.
recorded_first(line, f_type) ==
    LET ip_list == LIST_OF_IPS(line)
    IN  IF f_type = lf /\ Len(ip_list) > 1 THEN <<ip_list[1]>> ELSE ip_list

\* The addresses of a line that process records.
recorded(line, f_type) ==
    LET ip_list == LIST_OF_IPS(line)
    IN  IF f_type = lf /\ Len(ip_list) > 1 THEN <<ip_list[2]>> ELSE ip_list

\* process(line, f_type, f_name)
process(st, line, f_type, f_name) ==
    processAll(st, recorded(line, f_type), line, f_type, f_name)

(* ----------------------------- reporting ------------------------------ *)

\* The command line: the files named for each file type, in order.
args == (lf :> <<"a.log", "b.log">>) @@ (wf :> <<"w.txt">>) @@ (bf :> <<"k.txt">>)

\* The (f_type, f_name) pairs in the order the two loops of the ingestion
\* visit them.
Sources ==
    [i \in 1..Len(args[lf]) |-> <<lf, args[lf][i]>>]
      \o [i \in 1..Len(args[wf]) |-> <<wf, args[wf][i]>>]
      \o [i \in 1..Len(args[bf]) |-> <<bf, args[bf][i]>>]

\* The keys of ipDic[ip][lf] in the order a loop over the dict meets them:
\* the order of insertion, which is the order the log files were read in.
logFilesOf(ipDic, ip) ==
    LET has(name) == name \in DOMAIN ipDic[ip][lf]
    IN  SelectSeq(args[lf], has)

\* Truth of a Python value: a flag, or a file object (always true).
Truthy(x) == x # "False"

\* The file names of the command line.
FileNames == UNION {{args[t][i] : i \in 1..Len(args[t])} : t \in DOMAIN args}

\* empties_report: the (f_name, f_type) pairs it lists, those whose counter
\* in f_status_dic is 0.
empties_report(f_status_dic) ==
    {tup \in FileNames \X DOMAIN f_status_dic :
        /\ tup[1] \in DOMAIN f_status_dic[tup[2]]
        /\ f_status_dic[tup[2]][tup[1]] = 0}

\* create_sets_by_tuple
create_sets_by_tuple(ipDic) ==
    LET tups == {tup \in {lf, wf, bf} \X FileNames :
                    \E ip \in DOMAIN ipDic :
                        /\ tup[1] \in DOMAIN ipDic[ip]
                        /\ tup[2] \in DOMAIN ipDic[ip][tup[1]]}
    IN  [tup \in tups |->
            {ip \in DOMAIN ipDic :
                /\ tup[1] \in DOMAIN ipDic[ip]
                /\ tup[2] \in DOMAIN ipDic[ip][tup[1]]}]

\* A faulty raw_output_set: the addresses of the first log file only.
raw_output_set_first_log(sets) ==
    UNION {sets[tup] : tup \in {t \in DOMAIN sets :
                                  t[1] = "--input" /\ t[2] = args[lf][1]}}

\* raw_output_set
raw_output_set(sets) ==
    UNION {sets[tup] : tup \in {t \in DOMAIN sets : t[1] = "--input"}}

RECURSIVE sumFiles(_, _, _)
sumFiles(ipDic, ip, names) ==
    IF names = <<>> THEN 0
    ELSE how_many(ipDic[ip][lf][Head(names)]) + sumFiles(ipDic, ip, Tail(names))

\* order_by_frequency: the key (n, ip)
order_by_frequency(ipDic, ip) == <<sumFiles(ipDic, ip, logFilesOf(ipDic, ip)), ip>>

\* tuple < tuple, for the keys (n, ip)
TupleLess(a, b) == a[1] < b[1] \/ (a[1] = b[1] /\ StrLess(a[2], b[2]))

\* A faulty frequency sort: reverse is left out.
sort_by_frequency_ascending(ipDic, ips) ==
    LET key(ip) == order_by_frequency(ipDic, ip)
        rank(ip) == 1 + Cardinality({x \in ips : TupleLess(key(x), key(ip))})
    IN  [i \in 1..Cardinality(ips) |-> CHOOSE ip \in ips : rank(ip) = i]

\* ips.sort(key=order_by_frequency, reverse=True): the keys are distinct
\* (each holds its ip), so ips comes out in descending order of its keys.
sort_by_frequency(ipDic, ips) ==
    LET key(ip) == order_by_frequency(ipDic, ip)
        rank(ip) == 1 + Cardinality({x \in ips : TupleLess(key(ip), key(x))})
    IN  [i \in 1..Cardinality(ips) |-> CHOOSE ip \in ips : rank(ip) = i]

\* A faulty sort by address: the addresses are compared as they are written.
sort_by_raw_ip(ips) ==
    LET rank(ip) == 1 + Cardinality({x \in ips : StrLess(x, ip)})
    IN  [i \in 1..Cardinality(ips) |-> CHOOSE ip \in ips : rank(ip) = i]

\* sorted(ips, key=akparser3.sortable_ip), for addresses whose keys are
\* distinct: ascending order of the keys.
sort_by_ip(ips) ==
    LET rank(ip) == 1 + Cardinality({x \in ips :
                                       StrLess(sortable_ip(x), sortable_ip(ip))})
    IN  [i \in 1..Cardinality(ips) |-> CHOOSE ip \in ips : rank(ip) = i]

\* The element of a one-element set.  Only({body(x) : x \in {e}}) is the
\* value of body(e) with e computed once, however often body uses it: a
\* local variable.
Only(S) == CHOOSE y \in S : TRUE

\* A faulty inner loop: item is joined with the record of the first log
\* file only.
joinFiles_first_only(heap, item, ipDic, names) ==
    IF names = <<>> THEN [raised |-> FALSE, heap |-> heap, self |-> item]
    ELSE join(heap, item, ipDic[item.ip][lf][Head(names)])

\* The inner loop of create_output_class_list: item joined with the record
\* of each log file in turn.
RECURSIVE joinFiles(_, _, _, _)
joinFiles(heap, item, ipDic, names) ==
    IF names = <<>> THEN [raised |-> FALSE, heap |-> heap, self |-> item]
    ELSE LET rest(one) == IF one.raised THEN one
                          ELSE joinFiles(one.heap, one.self, ipDic, Tail(names))
         IN  Only({rest(one) :
                     one \in {join(heap, item, ipDic[item.ip][lf][Head(names)])}})

\* create_output_class_list, for the addresses of a sequence: the list
\* made, and the heap the joins leave.
RECURSIVE create_output_class_list(_, _, _)
create_output_class_list(heap, ipDic, output_collection) ==
    IF output_collection = <<>>
    THEN [raised |-> FALSE, heap |-> heap, list |-> <<>>]
    ELSE LET ip == Head(output_collection)
             after(item_4_list, rest) ==
                [raised |-> rest.raised, heap |-> rest.heap,
                 list |-> <<item_4_list.self>> \o rest.list]
             append(item_4_list) ==
                IF item_4_list.raised
                THEN [raised |-> TRUE, heap |-> item_4_list.heap, list |-> <<>>]
                ELSE Only({after(item_4_list, rest) :
                             rest \in {create_output_class_list(
                                          item_4_list.heap, ipDic,
                                          Tail(output_collection))}})
         IN  Only({append(item_4_list) :
                     item_4_list \in {joinFiles(heap, IP_Class(ip), ipDic,
                                                logFilesOf(ipDic, ip))}})

\* The line types and the unclassified indicator in sorted (str) order.
SortedKeys == << "already_banned", "ban", "break_in", "closed", "disconnect",
                 "invalid_user", "listening", "no_id", "pub_key", "solo-IP",
                 "unban" >>

\* IP_Class.display(r, d), as the fields it prints: the address; the
\* occurrences if r; for r >= 2 each key in sorted order with its count and,
\* for a list, the items; for d the demographic line (demo).
display(heap, self, r, d, demo) ==
    LET has(k) == k \in keys(self)
        key_list == SelectSeq(SortedKeys, has)
    IN  [ip |-> self.ip,
         occurences |-> IF r > 0 THEN <<self.n>> ELSE <<>>,
         additional |->
            IF r >= 2
            THEN [i \in 1..Len(key_list) |->
                    [line_type |-> key_list[i],
                     count |-> Size(heap, self.other[key_list[i]]),
                     items |-> IF IsInt(self.other[key_list[i]]) THEN <<>>
                               ELSE heap[self.other[key_list[i]].ref]]]
            ELSE <<>>,
         demographic |-> IF d THEN <<demo>> ELSE <<>>]

\* Whether display(r, d) formats an item of a list ("{0: >51}".format(item),
\* item a list: a TypeError from Python 3.4 on).
formatsItem(heap, self, r) ==
    r >= 2 /\ \E k \in keys(self) :
                 IsList(self.other[k]) /\ heap[self.other[k].ref] # <<>>

\* A set as a sequence, in some order (a loop over a Python set).
RECURSIVE SetToSeq(_)
SetToSeq(S) == IF S = {} THEN <<>>
               ELSE LET x == CHOOSE x \in S : TRUE IN <<x>> \o SetToSeq(S \ {x})

\* A faulty remove_overlaps_report: only the black files are looked at.
remove_overlaps_black_only(heap, ipDic, sets, output_set) ==
    LET files == {tup \in DOMAIN sets :
                    tup[1] = "--black" /\ sets[tup] \cap output_set # {}}
        overlaps_by_file == [tup \in files |-> output_set \cap sets[tup]]
        overlaps == UNION {overlaps_by_file[tup] : tup \in files}
        result(made) ==
            [raised |-> made.raised, heap |-> made.heap,
             ret |-> [tup \in files |-> sort_by_ip(overlaps_by_file[tup])],
             instances |-> made.list,
             output_set |-> output_set \ overlaps]
    IN  Only({result(made) :
                made \in {create_output_class_list(heap, ipDic, SetToSeq(overlaps))}})

\* remove_overlaps_report, up to its displays: ret maps each white or
\* black file that shares an address with output_set to the addresses
\* listed under it, in the order listed (the order of the files' groups is
\* the order of a dict and is not kept); instances is
\* list_of_overlapping_instances; output_set is the set as it is left.
remove_overlaps_report(heap, ipDic, sets, output_set) ==
    LET files == {tup \in DOMAIN sets :
                    tup[1] # "--input" /\ sets[tup] \cap output_set # {}}
        overlaps_by_file == [tup \in files |-> output_set \cap sets[tup]]
        overlaps == UNION {overlaps_by_file[tup] : tup \in files}
        result(list_of_overlapping_instances) ==
            [raised |-> list_of_overlapping_instances.raised,
             heap |-> list_of_overlapping_instances.heap,
             ret |-> [tup \in files |-> sort_by_ip(overlaps_by_file[tup])],
             instances |-> list_of_overlapping_instances.list,
             output_set |-> output_set \ overlaps]
    IN  Only({result(made) :
                made \in {create_output_class_list(heap, ipDic, SetToSeq(overlaps))}})

(* ------------------------------ the run ------------------------------- *)

VARIABLES
    frequency,          \* args["--frequency"]
    r, d, q, v,         \* args["-r"], "--demographics", "--quiet", "--verbose"
    f,                  \* args["--frequency"], then the file being read
    pc,                 \* "open", "lines", "report", "done", "raised"
    idx,                \* the place in Sources of the file at hand
    f_status_dic, ipDic, heap,
    err_message_list, success_list,
    output_set,         \* the set of line 451, as remove_overlaps_report leaves it
    duplicate_deletion_report,
    report,             \* what is written to outF
    ips,                \* the addresses left, as sorted (line 460)
    class_list,         \* the merged records made of them (line 465)
    ja, jb, jc,         \* JoinSpec: the operands of join, as values
    jcall, jres,        \* JoinSpec: the joins made, and what each left
    kcall,              \* KeySpec: two addresses, and sortable_ip of each
    pcall,              \* ProcessSpec: one call of process, before and after
    ocall               \* OrderSpec: one input, run in two orders of its files

vars == << frequency, r, d, q, v, f, pc, idx, f_status_dic, ipDic, heap,
           err_message_list, success_list, output_set,
           duplicate_deletion_report, report, ips, class_list,
           ja, jb, jc, jcall, jres, kcall, pcall, ocall >>

runVars == << frequency, r, d, q, v, f, pc, idx, f_status_dic, ipDic, heap,
              err_message_list, success_list, output_set,
              duplicate_deletion_report, report, ips, class_list >>

joinVars == << ja, jb, jc, jcall, jres >>

callVars == << kcall, pcall, ocall >>

\* No call of KeySpec, ProcessSpec or OrderSpec is set up.
NoCalls == kcall = <<>> /\ pcall = <<>> /\ ocall = <<>>

\* The addresses of the input.
IPs == { <<"9", ".", "9", ".", "9", ".", "9">>,
         <<"1", "0", ".", "0", ".", "0", ".", "1">>,
         <<"1", "0", ".", "0", ".", "0", ".", "2">> }

\* What IP_EXP finds in a line: no address, one, or two.
IPLists == {<<>>} \cup {<<a>> : a \in IPs} \cup {<<a, b>> : a \in IPs, b \in IPs}

\* The lines of the input: a line no expression matches, one that only
\* "POSSIBLE BREAK-IN ATTEMPT!" matches (an expression with no group), an
\* "Invalid user" line, and one that "POSSIBLE BREAK-IN ATTEMPT!" matches
\* too.
Lines ==
    { [ips |-> found_ips, found |-> found, groups |-> <<>>] :
        found_ips \in IPLists, found \in {{}, {"break_in"}} }
    \cup
    { [ips |-> found_ips, found |-> found, groups |-> <<"ro">>] :
        found_ips \in IPLists, found \in {{"invalid_user"}, {"break_in", "invalid_user"}} }

\* The files of the command line that may not be there to open.
MayBeMissing == {"k.txt"}

NoReport == [written |-> FALSE, success |-> <<>>, errors |-> <<>>,
             empties |-> {}, removed |-> <<>>, body |-> <<>>]

NoJoin == [ip |-> <<>>, n |-> 0, other |-> EmptyDict]

\* The run before its first step, for given options.
RunStart(freq, rr, dd, qq, vv) ==
    /\ frequency = freq
    /\ r = rr
    /\ d = dd
    /\ q = qq
    /\ v = vv
    /\ f = IF freq THEN "True" ELSE "False"
    /\ pc = "open"
    /\ idx = 1
    /\ f_status_dic = (lf :> EmptyDict) @@ (wf :> EmptyDict) @@ (bf :> EmptyDict)
    /\ ipDic = EmptyDict
    /\ heap = EmptyDict
    /\ err_message_list = <<>>
    /\ success_list = <<>>
    /\ output_set = {}
    /\ duplicate_deletion_report = [files |-> EmptyDict, details |-> {}]
    /\ report = NoReport
    /\ ips = <<>>
    /\ class_list = <<>>

RunInit ==
    \E freq \in BOOLEAN, rr \in 0..2, dd \in BOOLEAN, qq \in BOOLEAN, vv \in BOOLEAN :
        RunStart(freq, rr, dd, qq, vv)

\* The IP occurrences recorded so far: the sum of f_status_dic.
RECURSIVE countFrom(_, _)
countFrom(fsd, i) ==
    IF i > Len(Sources) THEN 0
    ELSE (IF Sources[i][2] \in DOMAIN fsd[Sources[i][1]]
          THEN fsd[Sources[i][1]][Sources[i][2]] ELSE 0) + countFrom(fsd, i + 1)

Recorded == countFrom(f_status_dic, 1)

After(i) == IF i < Len(Sources) THEN "open" ELSE "report"

\* open(f_name) succeeds: f is the file now.
Open ==
    /\ pc = "open"
    /\ f' = "file"
    /\ pc' = "lines"
    /\ UNCHANGED << frequency, r, d, q, v, idx, f_status_dic, ipDic, heap,
                    err_message_list, success_list, output_set,
                    duplicate_deletion_report, report, ips, class_list >>

\* open(f_name) raises IOError: the message is kept, the next file is taken.
OpenFails ==
    /\ pc = "open"
    /\ Sources[idx][2] \in MayBeMissing
    /\ err_message_list' = Append(err_message_list, Sources[idx][2])
    /\ idx' = idx + 1
    /\ pc' = After(idx)
    /\ UNCHANGED << frequency, r, d, q, v, f, f_status_dic, ipDic, heap,
                    success_list, output_set, duplicate_deletion_report, report,
                    ips, class_list >>

\* One line of the file: process(line, arg_file_type, f_name).
ReadLine ==
    /\ pc = "lines"
    /\ \E line \in Lines :
          /\ Recorded + Len(recorded(line, Sources[idx][1])) <= MaxIPs
          /\ LET st == process([f_status_dic |-> f_status_dic, ipDic |-> ipDic,
                                heap |-> heap],
                               line, Sources[idx][1], Sources[idx][2])
             IN  /\ f_status_dic' = st.f_status_dic
                 /\ ipDic' = st.ipDic
                 /\ heap' = st.heap
    /\ UNCHANGED << frequency, r, d, q, v, f, pc, idx, err_message_list,
                    success_list, output_set, duplicate_deletion_report, report,
                    ips, class_list >>

\* The file is at its end: it is closed and listed.
Close ==
    /\ pc = "lines"
    /\ success_list' = Append(success_list, Sources[idx][2])
    /\ idx' = idx + 1
    /\ pc' = After(idx)
    /\ UNCHANGED << frequency, r, d, q, v, f, f_status_dic, ipDic, heap,
                    err_message_list, output_set, duplicate_deletion_report,
                    report, ips, class_list >>

\* Whether displaying a list of instances can raise: with d,
\* akparser3.ip_info is called, which the module does not define
\* (IpDemographics.ip_info returns or raises); an item of a list is
\* formatted with a format spec, which raises from Python 3.4 on.
canRaise(hp, instances, rr, dd) ==
    \E i \in 1..Len(instances) : dd \/ formatsItem(hp, instances[i], rr)

\* What IpDemographics.ip_info gives display to print, when it returns:
\* the country and city found, or blank fields (every field is "" after a
\* URLError, and when the answer does not match).  Without d it is not
\* called.
ip_info(dd) == IF dd THEN {"found", ""} ELSE {""}

\* Lines 431-483: the head of the report; the sets and the overlaps
\* removed; the addresses left sorted, merged, displayed; the report
\* written.  at: "reconcile" when a display of remove_overlaps_report
\* raises, "output" when one of the main body does, "end" when none does.
Report ==
    /\ pc = "report"
    /\ \E sets_by_tuple \in {create_sets_by_tuple(ipDic)} :
       \E got \in {remove_overlaps_report(heap, ipDic, sets_by_tuple,
                                          raw_output_set(sets_by_tuple))} :
       \E sorted \in {IF Truthy(f) THEN sort_by_frequency(ipDic, got.output_set)
                      ELSE sort_by_ip(got.output_set)} :
       \E made \in {create_output_class_list(got.heap, ipDic, sorted)} :
       \E demo \in ip_info(d) :
       LET shown == DOMAIN got.ret # {} /\ (r > 0 \/ d)
           ddr == [files |-> got.ret,
                   details |-> IF shown
                               THEN {display(got.heap, got.instances[i], r, d, demo) :
                                       i \in 1..Len(got.instances)}
                               ELSE {}]
       IN  \E at \in {"reconcile", "output", "end"} :
              /\ at = "reconcile" =>
                    got.raised \/ (shown /\ canRaise(got.heap, got.instances, r, d))
              /\ at = "output" =>
                    /\ ~got.raised
                    /\ made.raised \/ canRaise(made.heap, made.list, r, d)
              /\ at = "end" => ~got.raised /\ ~made.raised
              /\ heap' = IF at = "reconcile" THEN got.heap ELSE made.heap
              /\ output_set' = IF got.raised THEN raw_output_set(sets_by_tuple)
                                ELSE got.output_set
              /\ duplicate_deletion_report' =
                    IF at = "reconcile" THEN duplicate_deletion_report ELSE ddr
              /\ ips' = IF at = "reconcile" THEN ips ELSE sorted
              /\ class_list' = IF at = "reconcile" \/ made.raised THEN class_list
                               ELSE made.list
              /\ pc' = IF at = "end" THEN "done" ELSE "raised"
              /\ report' =
                    IF at # "end" THEN report
                    ELSE [written |-> TRUE,
                          success |-> IF ~q THEN success_list ELSE <<>>,
                          errors |-> IF ~q THEN err_message_list ELSE <<>>,
                          empties |-> IF ~q THEN empties_report(f_status_dic) ELSE {},
                          removed |-> IF v THEN <<ddr>> ELSE <<>>,
                          body |-> [i \in 1..Len(made.list) |->
                                      display(made.heap, made.list[i],
                                              r, d, demo)]]
    /\ UNCHANGED << frequency, r, d, q, v, f, idx, f_status_dic, ipDic,
                    err_message_list, success_list >>

Init ==
    /\ RunInit
    /\ ja = NoJoin /\ jb = NoJoin /\ jc = NoJoin /\ jcall = <<>> /\ jres = EmptyDict
    /\ NoCalls

Next ==
    \/ Open /\ UNCHANGED << joinVars, callVars >>
    \/ OpenFails /\ UNCHANGED << joinVars, callVars >>
    \/ ReadLine /\ UNCHANGED << joinVars, callVars >>
    \/ Close /\ UNCHANGED << joinVars, callVars >>
    \/ Report /\ UNCHANGED << joinVars, callVars >>

Spec == Init /\ [][Next]_vars

(* ------------------- the files are read, no more ---------------------- *)

\* The run with no option given, up to the end of the loop of lines
\* 410-427: what process leaves does not depend on the options.
IngestInit ==
    /\ RunStart(FALSE, 0, FALSE, FALSE, FALSE)
    /\ ja = NoJoin /\ jb = NoJoin /\ jc = NoJoin /\ jcall = <<>> /\ jres = EmptyDict
    /\ NoCalls

IngestNext ==
    \/ Open /\ UNCHANGED << joinVars, callVars >>
    \/ OpenFails /\ UNCHANGED << joinVars, callVars >>
    \/ ReadLine /\ UNCHANGED << joinVars, callVars >>
    \/ Close /\ UNCHANGED << joinVars, callVars >>

IngestSpec == IngestInit /\ [][IngestNext]_vars

(* ------------------------- join, on its own --------------------------- *)

\* The users an "Invalid user" line names.
Users == {"ro", "zabbix"}

\* The sequences over S of length len.
SeqsOf(S, len) == [1..len -> S]

\* The record process leaves for an address in a log file, as a value:
\* solo lines that no expression matches (a counter under "solo-IP") and an
\* "Invalid user" line for each user of users (a list under "invalid_user").
Record(ip, solo, users) ==
    [ip |-> ip, n |-> solo + Len(users),
     other |-> [k \in (IF solo > 0 THEN {_unclassified_IP_indicator} ELSE {})
                      \cup (IF users # <<>> THEN {"invalid_user"} ELSE {}) |->
                  IF k = "invalid_user"
                  THEN [list |-> [i \in 1..Len(users) |-> << <<users[i]>> >>]]
                  ELSE IntVal(solo)]]

\* The records of at most MaxN occurrences.
Records(ip) ==
    LET shapes == {sh \in (0..MaxN) \X UNION {SeqsOf(Users, len) : len \in 0..MaxN} :
                     sh[1] + Len(sh[2]) \in 1..MaxN}
    IN  {Record(ip, sh[1], sh[2]) : sh \in shapes}

\* A value as an object of the heap: the record with its lists by reference,
\* and the lists.
LoadSelf(x, tag) ==
    IF ~IsIPClass(x) THEN x
    ELSE [ip |-> x.ip, n |-> x.n,
          other |-> [k \in DOMAIN x.other |->
                       IF IsInt(x.other[k]) THEN x.other[k]
                       ELSE ListVal(<<tag, k>>)]]

LoadHeap(x, tag) ==
    IF ~IsIPClass(x) THEN EmptyDict
    ELSE [id \in {<<tag, k>> : k \in {k \in DOMAIN x.other : ~IsInt(x.other[k])}} |->
            x.other[id[2]].list]

\* x.join(y) on values: whether it raised, and x and y as it leaves them.
joinValues(x, y) ==
    LET res == join(LoadHeap(x, "self") @@ LoadHeap(y, "instance"),
                    LoadSelf(x, "self"), LoadSelf(y, "instance"))
    IN  [raised |-> res.raised,
         self |-> Value(res.heap, res.self),
         instance |-> IF IsIPClass(y)
                      THEN Value(res.heap, LoadSelf(y, "instance")) ELSE y]

\* The address of the receiving record.
JoinIP == <<"1", "0", ".", "0", ".", "0", ".", "1">>

\* ja: a record; jb: a record of any address, or the counter of a white or
\* black file (not an IP_Class); jc: a record of ja's address, or a counter.
JoinInit ==
    /\ RunStart(FALSE, 0, FALSE, FALSE, FALSE)
    /\ ja \in Records(JoinIP)
    /\ jb \in UNION {Records(ip) : ip \in IPs} \cup {IntVal(1)}
    /\ jc \in Records(JoinIP) \cup {IntVal(1)}
    /\ jcall = <<>>
    /\ jres = EmptyDict
    /\ NoCalls

\* The join made last.
Last(calls) == IF calls = <<>> THEN "" ELSE calls[Len(calls)]

\* ja.join(jb)
JoinAB ==
    /\ jcall = <<>>
    /\ jres' = Put(jres, "ab", joinValues(ja, jb))
    /\ jcall' = Append(jcall, "ab")
    /\ UNCHANGED << ja, jb, jc >>

\* ja.join(jb) has returned: ja.join(jc) on what it left.
JoinABC ==
    /\ jcall = <<"ab">>
    /\ ~jres["ab"].raised
    /\ jres' = Put(jres, "abc", joinValues(jres["ab"].self, jc))
    /\ jcall' = Append(jcall, "abc")
    /\ UNCHANGED << ja, jb, jc >>

\* On fresh copies: jb.join(jc)
JoinBC ==
    /\ Last(jcall) = "abc" \/ (Last(jcall) = "ab" /\ jres["ab"].raised)
    /\ IsIPClass(jb)
    /\ jres' = Put(jres, "bc", joinValues(jb, jc))
    /\ jcall' = Append(jcall, "bc")
    /\ UNCHANGED << ja, jb, jc >>

\* jb.join(jc) has returned: ja.join(jb) on a fresh copy of ja.
JoinA_BC ==
    /\ Last(jcall) = "bc"
    /\ ~jres["bc"].raised
    /\ jres' = Put(jres, "a_bc", joinValues(ja, jres["bc"].self))
    /\ jcall' = Append(jcall, "a_bc")
    /\ UNCHANGED << ja, jb, jc >>

\* On fresh copies: jb.join(ja)
JoinBA ==
    /\ Last(jcall) = "a_bc" \/ (Last(jcall) = "bc" /\ jres["bc"].raised)
    /\ jres' = Put(jres, "ba", joinValues(jb, ja))
    /\ jcall' = Append(jcall, "ba")
    /\ UNCHANGED << ja, jb, jc >>

JoinNext ==
    \/ JoinAB /\ UNCHANGED << runVars, callVars >>
    \/ JoinABC /\ UNCHANGED << runVars, callVars >>
    \/ JoinBC /\ UNCHANGED << runVars, callVars >>
    \/ JoinA_BC /\ UNCHANGED << runVars, callVars >>
    \/ JoinBA /\ UNCHANGED << runVars, callVars >>

JoinSpec == JoinInit /\ [][JoinNext]_vars

(* ------------------ the report, for any record store ------------------ *)

\* The loop of lines 420-423 over the lines of one file.
RECURSIVE processLines(_, _, _, _)
processLines(st, lines, f_type, f_name) ==
    IF lines = <<>> THEN st
    ELSE LET rest(one) == processLines(one, Tail(lines), f_type, f_name)
         IN  Only({rest(one) : one \in {process(st, Head(lines), f_type, f_name)}})

\* The loop of lines 409-427 from the i-th file on, every file opening:
\* content gives each file's lines.
RECURSIVE ingest(_, _, _)
ingest(st, i, content) ==
    IF i > Len(Sources) THEN st
    ELSE LET rest(one) == ingest(one, i + 1, content)
         IN  Only({rest(one) :
                     one \in {processLines(st, content[Sources[i][2]],
                                           Sources[i][1], Sources[i][2])}})

\* The line of a file that names ip: an "Invalid user" line in a log file
\* (but for the last address in the last log file, which a line that no
\* expression matches names), the bare address in a white or black file.
LineOf(ip, f_type, f_name) ==
    IF /\ f_type = lf
       /\ ~(f_name = args[lf][Len(args[lf])] /\ ip = sort_by_ip(IPs)[Cardinality(IPs)])
    THEN [ips |-> <<ip>>, found |-> {"invalid_user"}, groups |-> <<"ro">>]
    ELSE [ips |-> <<ip>>, found |-> {}, groups |-> <<>>]

\* The files' lines when placed gives the files each address is in.
Content(placed) ==
    [f_name \in FileNames |->
        LET f_type == CHOOSE t \in DOMAIN args :
                         \E i \in 1..Len(args[t]) : args[t][i] = f_name
            inFile == sort_by_ip({ip \in IPs : f_name \in placed[ip]})
        IN  [i \in 1..Len(inFile) |-> LineOf(inFile[i], f_type, f_name)]]

\* The globals as the loop of lines 409-427 leaves them, placed giving the
\* files each address is in.
Ingested(placed) ==
    ingest([f_status_dic |-> (lf :> EmptyDict) @@ (wf :> EmptyDict) @@ (bf :> EmptyDict),
            ipDic |-> EmptyDict, heap |-> EmptyDict],
           1, Content(placed))

\* The run when every file has been read and has left the globals st, for
\* given options.
ReportStart(st, freq, rr, dd, qq, vv) ==
    /\ f_status_dic = st.f_status_dic
    /\ ipDic = st.ipDic
    /\ heap = st.heap
    /\ frequency = freq
    /\ r = rr
    /\ d = dd
    /\ q = qq
    /\ v = vv
    /\ f = "file"
    /\ pc = "report"
    /\ idx = Len(Sources) + 1
    /\ err_message_list = <<>>
    /\ success_list = [i \in 1..Len(Sources) |-> Sources[i][2]]
    /\ output_set = {}
    /\ duplicate_deletion_report = [files |-> EmptyDict, details |-> {}]
    /\ report = NoReport
    /\ ips = <<>>
    /\ class_list = <<>>
    /\ ja = NoJoin /\ jb = NoJoin /\ jc = NoJoin /\ jcall = <<>> /\ jres = EmptyDict
    /\ NoCalls

\* Any address in any of the files; the options -f and -r as they may be,
\* -v given, -d and -q not.
ReconInit ==
    \E placed \in [IPs -> SUBSET FileNames] :
        \E st \in {Ingested(placed)} :
            \E freq \in BOOLEAN : \E rr \in 0..2 :
                ReportStart(st, freq, rr, FALSE, FALSE, TRUE)

ReconNext == Report /\ UNCHANGED << joinVars, callVars >>

ReconSpec == ReconInit /\ [][ReconNext]_vars

(* ------------------------------ claims -------------------------------- *)

\* The address of the docstring of sortable_ip, and its key.
FIFTY == <<"5", "0", ".", "1", "4", "3", ".", "7", "5", ".", "1", "0", "5">>
FIFTY_PADDED == <<"0", "5", "0", ".", "1", "4", "3", ".", "0", "7", "5", ".", "1", "0", "5">>

\* C1: while the files are read, after any sequence of process calls, every
\* IP_Class record stored in ipDic[ip]["--input"][f_name] has n equal to the
\* sum over its evidence keys of the counter, or of the length of the list.
C1_CountInvariant ==
    pc \in {"open", "lines", "report"} =>
        \A ip \in DOMAIN ipDic :
            lf \in DOMAIN ipDic[ip] =>
                \A f_name \in DOMAIN ipDic[ip][lf] :
                    ipDic[ip][lf][f_name].n = get_log_count(heap, ipDic[ip][lf][f_name])

\* C1, its case: all the files are read and a record holds three
\* occurrences under two keys, a counter and a list.
C1_Witness ==
    /\ pc = "report"
    /\ \E ip \in DOMAIN ipDic :
          /\ lf \in DOMAIN ipDic[ip]
          /\ \E f_name \in DOMAIN ipDic[ip][lf] :
                /\ ipDic[ip][lf][f_name].n = MaxIPs
                /\ keys(ipDic[ip][lf][f_name]) = {"invalid_user", _unclassified_IP_indicator}

\* C2: every merged record create_output_class_list builds (those of the
\* main body, and those displayed with the addresses removed) has n equal
\* to the sum of the sizes of its evidence buckets.
C2_MergedCountConserved ==
    LET RECURSIVE sumCounts(_)
        sumCounts(additional) ==
            IF additional = <<>> THEN 0
            ELSE Head(additional).count + sumCounts(Tail(additional))
    IN  /\ \A i \in 1..Len(class_list) :
              class_list[i].n = get_log_count(heap, class_list[i])
        /\ r >= 2 =>
              \A shown \in duplicate_deletion_report.details :
                  shown.occurences = <<sumCounts(shown.additional)>>

\* C2, its case (Scenario D): an address met twice in the log files, in an
\* "Invalid user" line of one and an unrecognized line of the other, is
\* merged into a record of n = 2 with two keys whose sizes sum to 2.
C2_Witness ==
    \E i \in 1..Len(class_list) :
        /\ class_list[i].n = 2
        /\ keys(class_list[i]) = {"invalid_user", _unclassified_IP_indicator}
        /\ get_log_count(heap, class_list[i]) = 2
        /\ Cardinality(DOMAIN ipDic[class_list[i].ip][lf]) = 2

\* C3: once remove_overlaps_report is through, output_set shares no address
\* with the set of any white or black file of sets.
C3_OutputDisjoint ==
    pc \in {"done", "raised"} =>
        LET sets == create_sets_by_tuple(ipDic)
        IN  \A tup \in DOMAIN sets :
                tup[1] \in {wf, bf} => output_set \cap sets[tup] = {}

\* C3, its case: an address of the log files that is in the white and in
\* the black file was taken out, and another address is left.
C3_Witness ==
    /\ pc = "done"
    /\ output_set # {}
    /\ LET sets == create_sets_by_tuple(ipDic)
       IN  \E ip \in raw_output_set(sets) \ output_set :
              \A tup \in DOMAIN sets : tup[1] \in {wf, bf} => ip \in sets[tup]
    /\ Cardinality(DOMAIN duplicate_deletion_report.files) = 2

\* C4: once the files are read, no record of a log file in ipDic changes:
\* neither its n nor any of its counters or lists.
C4_StoreUnchangedByMerging ==
    [][pc = "report" =>
          \A ip \in DOMAIN ipDic :
              lf \in DOMAIN ipDic[ip] =>
                  \A f_name \in DOMAIN ipDic[ip][lf] :
                      Value(heap', ipDic'[ip][lf][f_name])
                        = Value(heap, ipDic[ip][lf][f_name])]_vars

\* C4, its case: the report is written for an address that two log files
\* hold, each in an "Invalid user" line.
C4_Witness ==
    /\ pc = "done"
    /\ \E i \in 1..Len(class_list) :
          /\ DOMAIN ipDic[class_list[i].ip][lf] = {"a.log", "b.log"}
          /\ \A f_name \in {"a.log", "b.log"} :
                "invalid_user" \in keys(ipDic[class_list[i].ip][lf][f_name])

\* C8: an address of a log file that a white or black file holds too is
\* not in the output, and is listed under every white or black file that
\* holds it; under each file the addresses are in ascending order of
\* sortable_ip, and only addresses taken out are listed.
C8_RemovalReport ==
    pc = "done" =>
        LET sets == create_sets_by_tuple(ipDic)
            logged == raw_output_set(sets)
            files == duplicate_deletion_report.files
        IN  /\ \A tup \in DOMAIN sets :
                  tup[1] # lf =>
                      \A ip \in sets[tup] \cap logged :
                          /\ ip \notin output_set
                          /\ \A i \in 1..Len(report.body) : report.body[i].ip # ip
                          /\ tup \in DOMAIN files
                          /\ \E i \in 1..Len(files[tup]) : files[tup][i] = ip
            /\ \A tup \in DOMAIN files :
                  /\ tup[1] # lf
                  /\ \A i \in 1..Len(files[tup]) :
                        /\ files[tup][i] \in sets[tup] \cap logged
                        /\ files[tup][i] \notin output_set
                  /\ \A i \in 1..Len(files[tup]), j \in 1..Len(files[tup]) :
                        i < j => StrLess(sortable_ip(files[tup][i]),
                                         sortable_ip(files[tup][j]))

\* C8, its case: two files' groups are listed, one of them with 9.9.9.9
\* before an address that begins with 10, and an address is left to output.
C8_Witness ==
    /\ pc = "done"
    /\ output_set # {}
    /\ Cardinality(DOMAIN duplicate_deletion_report.files) = 2
    /\ \E tup \in DOMAIN duplicate_deletion_report.files :
          /\ Len(duplicate_deletion_report.files[tup]) = 2
          /\ duplicate_deletion_report.files[tup][1] = <<"9", ".", "9", ".", "9", ".", "9">>

\* C9 as stated: with --frequency the report lists the addresses by their
\* occurrences over all their log files, descending, and those of equal
\* occurrences in ascending order of sortable_ip.
C9_TiesAscendingCanonical ==
    (frequency /\ pc = "done") =>
        \A i \in 1..Len(report.body), j \in 1..Len(report.body) :
            i < j =>
                LET a == order_by_frequency(ipDic, report.body[i].ip)
                    b == order_by_frequency(ipDic, report.body[j].ip)
                IN  \/ a[1] > b[1]
                    \/ a[1] = b[1] /\ StrLess(sortable_ip(a[2]), sortable_ip(b[2]))

\* C9: with --frequency the report lists the addresses by their occurrences
\* over all their log files, descending, and those of equal occurrences in
\* descending order of the addresses as they are written (compared as str).
C9_TiesDescendingRaw ==
    (frequency /\ pc = "done") =>
        \A i \in 1..Len(report.body), j \in 1..Len(report.body) :
            i < j =>
                LET a == order_by_frequency(ipDic, report.body[i].ip)
                    b == order_by_frequency(ipDic, report.body[j].ip)
                IN  \/ a[1] > b[1]
                    \/ a[1] = b[1] /\ StrLess(b[2], a[2])

\* C9, its case: three addresses are listed, the first met twice, the
\* other two once each.
C9_Witness ==
    /\ frequency
    /\ pc = "done"
    /\ Len(report.body) = 3
    /\ order_by_frequency(ipDic, report.body[1].ip)[1] = 2
    /\ order_by_frequency(ipDic, report.body[2].ip)[1] = 1
    /\ order_by_frequency(ipDic, report.body[3].ip)[1] = 1

\* C10: sortable_ip pads each of the four octets to three digits; the order
\* of the keys, as str, is the order of the octets as numbers; and without
\* --frequency the report lists the addresses in ascending numeric order.
C10_LexicographicOrder ==
    LET RECURSIVE intOf(_)
        intOf(digits) ==
            IF digits = <<>> THEN 0
            ELSE 10 * intOf(SubSeq(digits, 1, Len(digits) - 1))
                   + (Ord(digits[Len(digits)]) - Ord("0"))
        numLess(a, b) == \E i \in 1..4 : /\ a[i] < b[i]
                                         /\ \A j \in 1..(i - 1) : a[j] = b[j]
    IN  \E key \in {[ip \in IPs \cup {FIFTY} |-> sortable_ip(ip)]} :
        \E octets \in {[ip \in IPs \cup {FIFTY} |->
                          [i \in 1..4 |-> intOf(split(ip, ".")[i])]]} :
            /\ key[FIFTY] = FIFTY_PADDED
            /\ key[<<"9", ".", "9", ".", "9", ".", "9">>]
                  = <<"0", "0", "9", ".", "0", "0", "9", ".",
                      "0", "0", "9", ".", "0", "0", "9">>
            /\ \A a \in DOMAIN key, b \in DOMAIN key :
                  StrLess(key[a], key[b]) <=> numLess(octets[a], octets[b])
            /\ (~frequency /\ pc = "done") =>
                  \A i \in 1..Len(report.body), j \in 1..Len(report.body) :
                      i < j => numLess(octets[report.body[i].ip],
                                       octets[report.body[j].ip])

\* C10, its case: the report is written without --frequency and lists
\* more than one address.
C10_Witness ==
    /\ ~frequency
    /\ pc = "done"
    /\ Len(report.body) >= 2

\* C5 as stated: join is associative and commutative on records of one
\* address, compared by n and by the counters and lists.
C5_JoinAssociativeCommutative ==
    /\ ("abc" \in DOMAIN jres /\ "a_bc" \in DOMAIN jres) =>
          jres["abc"].self = jres["a_bc"].self
    /\ ("ba" \in DOMAIN jres /\ ~jres["ab"].raised /\ ~jres["ba"].raised) =>
          jres["ab"].self = jres["ba"].self

\* C5: join is associative on records of one address, compared by n and by
\* the counters and lists; it is commutative in n, in the keys and in the
\* counters, and in the lists up to the order of their items (a.join(b)
\* has a's items first, b.join(a) has b's).
C5_JoinAssociativeCommutativeAsBags ==
    LET count(list, x) == Cardinality({i \in 1..Len(list) : list[i] = x})
        sameItems(s, t) ==
            /\ Len(s) = Len(t)
            /\ \A i \in 1..Len(s) : count(s, s[i]) = count(t, s[i])
    IN  /\ ("abc" \in DOMAIN jres /\ "a_bc" \in DOMAIN jres) =>
              jres["abc"].self = jres["a_bc"].self
        /\ ("ba" \in DOMAIN jres /\ ~jres["ab"].raised /\ ~jres["ba"].raised) =>
              LET ab == jres["ab"].self
                  ba == jres["ba"].self
              IN  /\ ab.n = ba.n
                  /\ DOMAIN ab.other = DOMAIN ba.other
                  /\ \A k \in DOMAIN ab.other :
                        IF IsInt(ab.other[k]) THEN ab.other[k] = ba.other[k]
                        ELSE /\ ~IsInt(ba.other[k])
                             /\ sameItems(ab.other[k].list, ba.other[k].list)

\* C5, its case: all five joins are made, of three records that hold a
\* list each, and ja.join(jb) and jb.join(ja) leave different lists.
C5_Witness ==
    /\ DOMAIN jres = {"ab", "abc", "bc", "a_bc", "ba"}
    /\ \A c \in DOMAIN jres : ~jres[c].raised
    /\ \A x \in {ja, jb, jc} : "invalid_user" \in DOMAIN x.other
    /\ jres["ab"].self # jres["ba"].self

\* C6: x.join(y), for records of one address, leaves in x: n the sum of
\* both n; for a key of both, the sum of the counters, or x's list followed
\* by y's; for a key of one only, its value as it was; and no other key.
C6_JoinRule ==
    LET rule(x, y, got) ==
            /\ got.n = x.n + y.n
            /\ DOMAIN got.other = DOMAIN x.other \cup DOMAIN y.other
            /\ \A k \in DOMAIN got.other :
                  IF k \in DOMAIN x.other /\ k \in DOMAIN y.other
                  THEN IF IsInt(x.other[k])
                       THEN got.other[k] = IntVal(x.other[k].int + y.other[k].int)
                       ELSE got.other[k] = [list |-> x.other[k].list \o y.other[k].list]
                  ELSE IF k \in DOMAIN x.other
                  THEN got.other[k] = x.other[k]
                  ELSE got.other[k] = y.other[k]
        holds(call, x, y) ==
            (call \in DOMAIN jres /\ ~jres[call].raised) => rule(x, y, jres[call].self)
    IN  /\ holds("ab", ja, jb)
        /\ holds("abc", jres["ab"].self, jc)
        /\ holds("bc", jb, jc)
        /\ holds("a_bc", ja, jres["bc"].self)
        /\ holds("ba", jb, ja)

\* C6, its case: ja.join(jb) met a list in both and a key of ja alone, and
\* the join with jc after it met a counter in both.
C6_Witness ==
    /\ "abc" \in DOMAIN jres
    /\ ~jres["abc"].raised
    /\ "invalid_user" \in DOMAIN ja.other \cap DOMAIN jb.other
    /\ _unclassified_IP_indicator \in DOMAIN ja.other \ DOMAIN jb.other
    /\ _unclassified_IP_indicator \in DOMAIN jc.other
    /\ "invalid_user" \notin DOMAIN jc.other

\* C7: x.join(y) raises when y is a record of another address and when y is
\* not an IP_Class (the counter of a white or black file); x is left with
\* its n and its evidence as they were.
C7_JoinRaises ==
    LET unfit(x, y) == ~IsIPClass(y) \/ x.ip # y.ip
        holds(call, x, y) ==
            (call \in DOMAIN jres /\ unfit(x, y)) =>
                jres[call].raised /\ jres[call].self = x
    IN  /\ holds("ab", ja, jb)
        /\ holds("bc", jb, jc)
        /\ holds("ba", jb, ja)

\* C7, its case: ja.join(jb) was called with a record of another address,
\* and jb.join(jc) with a counter.
C7_Witness ==
    /\ "bc" \in DOMAIN jres
    /\ jb.ip # ja.ip
    /\ ~IsIPClass(jc)
    /\ jb.n = MaxN
    /\ jres["ab"].raised
    /\ jres["bc"].raised

(* ------------------------ sortable_ip on its own ----------------------- *)

\* What stands between the dots of the addresses KeySpec tries: octets with
\* and without leading zeros, one of four digits, an empty one and a letter.
Octets == { <<"0">>, <<"1">>, <<"0", "1">>, <<"0", "0", "1">>, <<"1", "0">>,
            <<"1", "0", "0", "0">>, <<>>, <<"a">> }

\* The addresses sortable_ip is tried on: "1.2.x.y", "1.2.3" and "1.2.3.4.5".
Addresses ==
    { <<"1", ".", "2", ".">> \o x \o <<".">> \o y : x, y \in Octets }
        \cup { <<"1", ".", "2", ".", "3">>,
               <<"1", ".", "2", ".", "3", ".", "4", ".", "5">> }

\* IP_EXP matches the whole of ip: four parts of one to three digits.
WellFormed(ip) ==
    LET parts == split(ip, ".")
    IN  /\ Len(parts) = 4
        /\ \A i \in 1..4 :
              /\ Len(parts[i]) \in 1..3
              /\ \A j \in 1..Len(parts[i]) :
                    Ord(parts[i][j]) >= 48 /\ Ord(parts[i][j]) <= 57

KeyInit ==
    /\ RunStart(FALSE, 0, FALSE, FALSE, FALSE)
    /\ ja = NoJoin /\ jb = NoJoin /\ jc = NoJoin /\ jcall = <<>> /\ jres = EmptyDict
    /\ kcall \in [a : Addresses, b : Addresses, keys : {<<>>}]
    /\ pcall = <<>>
    /\ ocall = <<>>

\* sortable_ip(a) and sortable_ip(b)
Canonicalize ==
    /\ kcall.keys = <<>>
    /\ kcall' = [kcall EXCEPT !.keys = << sortable_ip(kcall.a), sortable_ip(kcall.b) >>]
    /\ UNCHANGED << runVars, joinVars, pcall, ocall >>

KeyNext == Canonicalize

KeySpec == KeyInit /\ [][KeyNext]_vars

\* C11: sortable_ip of an address that is not well formed is None, and is
\* the key of no well-formed address.
C11_MalformedYieldsNone ==
    (kcall # <<>> /\ kcall.keys # <<>> /\ ~WellFormed(kcall.a)) =>
        /\ kcall.keys[1] = None
        /\ WellFormed(kcall.b) => kcall.keys[1] # kcall.keys[2]

\* C11, its case: an address of three parts was given, and None came back.
C11_Witness ==
    /\ kcall # <<>>
    /\ kcall.keys # <<>>
    /\ kcall.a = <<"1", ".", "2", ".", "3">>
    /\ kcall.keys[1] = None

\* C12: sortable_ip gives two well-formed addresses one key exactly when
\* their octets differ in leading zeros only, and the octets of the key,
\* leading zeros apart, are those of the address.
C12_SameKeyIffSameOctets ==
    (kcall # <<>> /\ kcall.keys # <<>>
        /\ WellFormed(kcall.a) /\ WellFormed(kcall.b)) =>
        LET RECURSIVE bare(_)
            bare(part) == IF Len(part) > 1 /\ Head(part) = "0"
                          THEN bare(Tail(part)) ELSE part
            octets(ip) == [i \in 1..4 |-> bare(split(ip, ".")[i])]
        IN  /\ (kcall.keys[1] = kcall.keys[2]) <=> (octets(kcall.a) = octets(kcall.b))
            /\ octets(kcall.keys[1]) = octets(kcall.a)
            /\ octets(kcall.keys[2]) = octets(kcall.b)

\* C12 as first stated: no two distinct well-formed addresses have one key.
C12_KeysInjective ==
    (kcall # <<>> /\ kcall.keys # <<>>
        /\ WellFormed(kcall.a) /\ WellFormed(kcall.b) /\ kcall.a # kcall.b) =>
        kcall.keys[1] # kcall.keys[2]

\* C12, its case: two distinct well-formed addresses were given one key.
C12_Witness ==
    /\ kcall # <<>>
    /\ kcall.keys # <<>>
    /\ WellFormed(kcall.a)
    /\ WellFormed(kcall.b)
    /\ kcall.a # kcall.b
    /\ kcall.keys[1] = kcall.keys[2]

(* ---------------------- the files with no address --------------------- *)

\* C13: when the report is written, every file that was opened and in which
\* no address was recorded has the counter 0 in f_status_dic and is named
\* by empties_report, and no file with an address is named.
C13_EmptyFilesNamed ==
    (pc = "done" /\ ~q) =>
        \A i \in 1..Len(success_list) :
            \A tup \in {s \in {Sources[j] : j \in 1..Len(Sources)} :
                            s[2] = success_list[i]} :
                LET f_type == tup[1]
                    f_name == tup[2]
                    held == \E ip \in DOMAIN ipDic :
                                /\ f_type \in DOMAIN ipDic[ip]
                                /\ f_name \in DOMAIN ipDic[ip][f_type]
                IN  IF held
                    THEN << f_name, f_type >> \notin report.empties
                    ELSE /\ f_name \in DOMAIN f_status_dic[f_type]
                         /\ f_status_dic[f_type][f_name] = 0
                         /\ << f_name, f_type >> \in report.empties

\* C13, its case: the report was written after a run in which w.txt was
\* opened and held no address, and a.log held one.
C13_Witness ==
    /\ pc = "done"
    /\ ~q
    /\ report.written
    /\ \E i \in 1..Len(success_list) : success_list[i] = "w.txt"
    /\ \A ip \in DOMAIN ipDic : wf \notin DOMAIN ipDic[ip]
    /\ \E ip \in DOMAIN ipDic :
          lf \in DOMAIN ipDic[ip] /\ "a.log" \in DOMAIN ipDic[ip][lf]
    /\ report.empties = {}

(* -------------------------- process, on its own ----------------------- *)

\* The lines process is tried on: those of Lines, and lines of up to three
\* addresses that no expression matches, that "Invalid user" matches, or
\* that "POSSIBLE BREAK-IN ATTEMPT!" matches (an expression with no group).
LinesTried ==
    Lines \cup
    { [ips |-> found_ips, found |-> kind[1], groups |-> kind[2]] :
        found_ips \in IPLists \cup {<<a, b, c>> : a, b, c \in IPs},
        kind \in { <<{}, <<>>>>, <<{"invalid_user"}, <<"ro">>>>, <<{"break_in"}, <<>>>> } }

\* The globals process is tried on: as the loop of lines 409-427 leaves them
\* when every address is in the same files, whichever those are.
StoresTried ==
    { ingest([f_status_dic |-> (lf :> EmptyDict) @@ (wf :> EmptyDict)
                                 @@ (bf :> EmptyDict),
              ipDic |-> EmptyDict, heap |-> EmptyDict],
             1, Content([ip \in IPs |-> files])) : files \in SUBSET FileNames }

ProcessInit ==
    /\ RunStart(FALSE, 0, FALSE, FALSE, FALSE)
    /\ ja = NoJoin /\ jb = NoJoin /\ jc = NoJoin /\ jcall = <<>> /\ jres = EmptyDict
    /\ kcall = <<>>
    /\ \E i \in 1..Len(Sources) :
          pcall \in [line : LinesTried, f_type : {Sources[i][1]},
                     f_name : {Sources[i][2]}, before : StoresTried, after : {<<>>}]
    /\ ocall = <<>>

\* process(line, f_type, f_name)
Process ==
    /\ pcall.after = <<>>
    /\ pcall' = [pcall EXCEPT !.after = process(pcall.before, pcall.line,
                                                pcall.f_type, pcall.f_name)]
    /\ UNCHANGED << runVars, joinVars, kcall, ocall >>

ProcessNext == Process

ProcessSpec == ProcessInit /\ [][ProcessNext]_vars

ContentTried(placed) ==
    LET named(content) ==
            [f_name \in FileNames |->
                [i \in 1..Len(content[f_name]) |->
                    IF f_name = args[lf][2] /\ content[f_name][i].found # {}
                    THEN [content[f_name][i] EXCEPT !.groups = <<"zabbix">>]
                    ELSE content[f_name][i]]]
    IN  Only({named(content) : content \in {Content(placed)}})

\* The other of the two log files; any other file is itself.
otherLog(f_name) ==
    IF f_name = args[lf][1] THEN args[lf][2]
    ELSE IF f_name = args[lf][2] THEN args[lf][1]
    ELSE f_name

\* A dict of file names with each log file under the other's name.
exchanged(dict) ==
    [f_name \in {otherLog(name) : name \in DOMAIN dict} |-> dict[otherLog(f_name)]]

\* ipDic with the records as their values.
StoreValue(st) ==
    [ip \in DOMAIN st.ipDic |->
        [f_type \in DOMAIN st.ipDic[ip] |->
            [f_name \in DOMAIN st.ipDic[ip][f_type] |->
                IF IsIPClass(st.ipDic[ip][f_type][f_name])
                THEN Value(st.heap, st.ipDic[ip][f_type][f_name])
                ELSE st.ipDic[ip][f_type][f_name]]]]

\* Lines 409-468 for the files' lines content: the globals as the loop over
\* the files leaves them, then output_set, ips, class_list and the main
\* body, displayed with -r 2.
RunOf(content, freq) ==
    LET output(st, got, sorted, made) ==
            [f_status_dic |-> st.f_status_dic,
             ipDic |-> StoreValue(st),
             success_list |-> [i \in 1..Len(Sources) |-> Sources[i][2]],
             output_set |-> got.output_set,
             ips |-> sorted,
             class_list |-> [i \in 1..Len(made.list) |-> Value(made.heap, made.list[i])],
             body |-> [i \in 1..Len(made.list) |->
                         display(made.heap, made.list[i], 2, FALSE, "")]]
        merged(st, got, sorted) ==
            Only({output(st, got, sorted, made) :
                    made \in {create_output_class_list(got.heap, st.ipDic, sorted)}})
        ordered(st, got) ==
            Only({merged(st, got, sorted) :
                    sorted \in {IF freq THEN sort_by_frequency(st.ipDic, got.output_set)
                                ELSE sort_by_ip(got.output_set)}})
        reconciled(st, sets) ==
            Only({ordered(st, got) :
                    got \in {remove_overlaps_report(st.heap, st.ipDic, sets,
                                                    raw_output_set(sets))}})
        read(st) == reconciled(st, create_sets_by_tuple(st.ipDic))
    IN  Only({read(st) :
                st \in {ingest([f_status_dic |-> (lf :> EmptyDict) @@ (wf :> EmptyDict)
                                                   @@ (bf :> EmptyDict),
                                ipDic |-> EmptyDict, heap |-> EmptyDict],
                               1, content)}})

\* The run with its two log files named in the other order on the command
\* line: but for the names, it is the run with the two files' lines
\* exchanged, so each log file is put back under its own name.
RunOfOtherOrder(content, freq) ==
    LET named(out) ==
            [out EXCEPT
                !.f_status_dic = [f_type \in DOMAIN @ |-> exchanged(@[f_type])],
                !.ipDic = [ip \in DOMAIN @ |->
                             [f_type \in DOMAIN @[ip] |-> exchanged(@[ip][f_type])]],
                !.success_list = [i \in 1..Len(@) |-> otherLog(@[i])]]
    IN  Only({named(out) : out \in {RunOf(exchanged(content), freq)}})

OrderInit ==
    /\ RunStart(FALSE, 0, FALSE, FALSE, FALSE)
    /\ ja = NoJoin /\ jb = NoJoin /\ jc = NoJoin /\ jcall = <<>> /\ jres = EmptyDict
    /\ kcall = <<>>
    /\ pcall = <<>>
    /\ \E placed \in [IPs -> SUBSET FileNames] :
          ocall \in [content : {ContentTried(placed)}, frequency : BOOLEAN,
                     first : {<<>>}, second : {<<>>}]

\* The files are read and reported on, in the one order and in the other.
RunBoth ==
    /\ ocall.first = <<>>
    /\ ocall' = [ocall EXCEPT !.first = RunOf(ocall.content, ocall.frequency),
                              !.second = RunOfOtherOrder(ocall.content, ocall.frequency)]
    /\ UNCHANGED << runVars, joinVars, kcall, pcall >>

OrderNext == RunBoth

OrderSpec == OrderInit /\ [][OrderNext]_vars

\* C15: whichever of the two log files is read first, the run leaves the
\* same f_status_dic and ipDic, the same output_set, the same ips in the
\* same order, and for each address a merged record with the same n, the
\* same keys, the same counters, and lists of the same items; the items of
\* a list are in the order the files were read in.
C15_OrderIndependentButForLists ==
    (ocall # <<>> /\ ocall.first # <<>>) =>
        LET one == ocall.first
            two == ocall.second
            times(list, item) == Cardinality({i \in 1..Len(list) : list[i] = item})
            sameItems(x, y) ==
                /\ Len(x) = Len(y)
                /\ \A i \in 1..Len(x) : times(x, x[i]) = times(y, x[i])
        IN  /\ one.f_status_dic = two.f_status_dic
            /\ one.ipDic = two.ipDic
            /\ {one.success_list[i] : i \in 1..Len(one.success_list)}
                  = {two.success_list[i] : i \in 1..Len(two.success_list)}
            /\ one.output_set = two.output_set
            /\ one.ips = two.ips
            /\ Len(one.class_list) = Len(two.class_list)
            /\ \A i \in 1..Len(one.class_list) :
                  LET x == one.class_list[i]
                      y == two.class_list[i]
                  IN  /\ x.ip = y.ip
                      /\ x.n = y.n
                      /\ DOMAIN x.other = DOMAIN y.other
                      /\ \A k \in DOMAIN x.other :
                            IF IsInt(x.other[k]) THEN x.other[k] = y.other[k]
                            ELSE /\ ~IsInt(y.other[k])
                                 /\ sameItems(x.other[k].list, y.other[k].list)
                      /\ one.body[i].ip = two.body[i].ip
                      /\ one.body[i].occurences = two.body[i].occurences
                      /\ Len(one.body[i].additional) = Len(two.body[i].additional)
                      /\ \A j \in 1..Len(one.body[i].additional) :
                            /\ one.body[i].additional[j].line_type
                                  = two.body[i].additional[j].line_type
                            /\ one.body[i].additional[j].count
                                  = two.body[i].additional[j].count
                            /\ sameItems(one.body[i].additional[j].items,
                                         two.body[i].additional[j].items)

\* C15 as first stated: the merged records, their lists too, and the main
\* body displayed are the same in both orders.
C15_OrderIndependent ==
    (ocall # <<>> /\ ocall.first # <<>>) =>
        /\ ocall.first.f_status_dic = ocall.second.f_status_dic
        /\ ocall.first.ipDic = ocall.second.ipDic
        /\ ocall.first.output_set = ocall.second.output_set
        /\ ocall.first.ips = ocall.second.ips
        /\ ocall.first.class_list = ocall.second.class_list
        /\ ocall.first.body = ocall.second.body

\* C15, its case: an address that both log files hold in an "Invalid user"
\* line is merged, and its list has ro first in the one order and zabbix
\* first in the other.
C15_Witness ==
    /\ ocall # <<>>
    /\ ocall.first # <<>>
    /\ \E i \in 1..Len(ocall.first.class_list) :
          /\ "invalid_user" \in DOMAIN ocall.first.class_list[i].other
          /\ Len(ocall.first.class_list[i].other["invalid_user"].list) = 2
          /\ ocall.first.class_list[i].other["invalid_user"].list
                # ocall.second.class_list[i].other["invalid_user"].list

(* ------------------------ the report, any option --------------------- *)

\* The addresses of OptionsSpec: two of the three.
TwoIPs == IPs \ { <<"1", "0", ".", "0", ".", "0", ".", "1">> }

\* Two addresses in any of the files, and the options as they may be.
OptionsInit ==
    \E files \in [TwoIPs -> SUBSET FileNames] :
        \E st \in {Ingested([ip \in IPs |-> IF ip \in TwoIPs THEN files[ip] ELSE {}])} :
            \E freq \in BOOLEAN : \E rr \in 0..2 :
                \E dd \in BOOLEAN : \E qq \in BOOLEAN : \E vv \in BOOLEAN :
                    ReportStart(st, freq, rr, dd, qq, vv)

OptionsNext == Report /\ UNCHANGED << joinVars, callVars >>

OptionsSpec == OptionsInit /\ [][OptionsNext]_vars

\* C16: with -d (and -r below 2, so that no list item is formatted) the run
\* does not raise, and the report it writes has for every address either
\* the country and city found or the marker "unavailable".
C16_LookupFailureMarked ==
    (d /\ r < 2) =>
        /\ pc # "raised"
        /\ pc = "done" =>
              \A i \in 1..Len(report.body) :
                  report.body[i].demographic \in { <<"found">>, <<"unavailable">> }

\* C16, its case: with -d and no -r, the display of an address raised and
\* the run ended with no report written.
C16_Witness ==
    /\ d
    /\ r = 0
    /\ pc = "raised"
    /\ ~report.written
    /\ output_set # {}

(* -------------------------- the files' counters ----------------------- *)

\* C17: every step of the reading of the files leaves
\* f_status_dic[f_type][f_name] no lower than it was, and equal to the sum,
\* over the addresses, of the occurrences ipDic holds for that file (n of
\* the record of a log file, the counter of a white or black file); a file
\* with no counter is one ipDic holds nothing for.
C17_CounterIsSumOfOccurrences ==
    [][LET occurrences(dic, ip, f_type, f_name) ==
                IF ~(ip \in DOMAIN dic /\ f_type \in DOMAIN dic[ip]
                        /\ f_name \in DOMAIN dic[ip][f_type]) THEN 0
                ELSE IF f_type = lf THEN dic[ip][f_type][f_name].n
                ELSE dic[ip][f_type][f_name].int
           RECURSIVE sum(_, _, _, _)
           sum(dic, S, f_type, f_name) ==
                IF S = {} THEN 0
                ELSE LET ip == CHOOSE ip \in S : TRUE
                     IN  occurrences(dic, ip, f_type, f_name)
                            + sum(dic, S \ {ip}, f_type, f_name)
           count(fsd, f_type, f_name) ==
                IF f_name \in DOMAIN fsd[f_type] THEN fsd[f_type][f_name] ELSE 0
       IN  \A f_type \in {lf, wf, bf} : \A f_name \in FileNames :
               /\ f_name \in DOMAIN f_status_dic[f_type]
                     => f_name \in DOMAIN f_status_dic'[f_type]
               /\ count(f_status_dic', f_type, f_name)
                     >= count(f_status_dic, f_type, f_name)
               /\ count(f_status_dic', f_type, f_name)
                     = sum(ipDic', IPs, f_type, f_name)
               /\ count(f_status_dic', f_type, f_name) - count(f_status_dic, f_type, f_name)
                     = sum(ipDic', IPs, f_type, f_name) - sum(ipDic, IPs, f_type, f_name)
      ]_vars

\* C17, its case: the files are read; a.log holds two addresses, one of
\* them twice, and its counter is MaxIPs.
C17_Witness ==
    /\ pc = "report"
    /\ "a.log" \in DOMAIN f_status_dic[lf]
    /\ f_status_dic[lf]["a.log"] = MaxIPs
    /\ \E ip \in DOMAIN ipDic : ipDic[ip][lf]["a.log"].n = 2
    /\ Cardinality(DOMAIN ipDic) = 2

(* --------------------------- the main body ---------------------------- *)

\* C18: the addresses of the main body of a report that is written are
\* those some log file holds and no white or black file holds, each of
\* them once, whether -v is given or not.
C18_BodyIsLogsLessWhiteAndBlack ==
    pc = "done" =>
        LET logged == {ip \in DOMAIN ipDic : lf \in DOMAIN ipDic[ip]}
            listed == {ip \in DOMAIN ipDic : wf \in DOMAIN ipDic[ip] \/ bf \in DOMAIN ipDic[ip]}
        IN  /\ {report.body[i].ip : i \in 1..Len(report.body)} = logged \ listed
            /\ Len(report.body) = Cardinality(logged \ listed)
            /\ output_set = logged \ listed

\* C18, its case: the report is written without -v; one address, which
\* both log files hold, is in the main body once, and the other, which a
\* log file and the white file hold, is not.
C18_Witness ==
    /\ pc = "done"
    /\ ~v
    /\ Len(report.body) = 1
    /\ DOMAIN ipDic[report.body[1].ip] = {lf}
    /\ DOMAIN ipDic[report.body[1].ip][lf] = {"a.log", "b.log"}
    /\ \E ip \in DOMAIN ipDic : DOMAIN ipDic[ip] = {lf, wf}

(* --------------------- the lines no expression matches ---------------- *)

C20_OneVariantPerLabel ==
    /\ \A i \in 1..Len(LINE_TYPES) :
          LET got == get_log_info([ips |-> <<>>, found |-> {LINE_TYPES[i]},
                                   groups |-> <<"ro">>])
          IN  /\ got[1] = LINE_TYPES[i]
              /\ (got[2] = <<>>) <=> (KEYS_PROVIDED[LINE_TYPES[i]] = <<>>)
    /\ \A ip \in DOMAIN ipDic :
          lf \in DOMAIN ipDic[ip] =>
              \A f_name \in DOMAIN ipDic[ip][lf] :
                  /\ \A k \in keys(ipDic[ip][lf][f_name]) :
                        IsInt(ipDic[ip][lf][f_name].other[k])
                          <=> IF k = _unclassified_IP_indicator THEN TRUE
                              ELSE KEYS_PROVIDED[k] = <<>>
                  /\ \A other_name \in DOMAIN ipDic[ip][lf] :
                        Mixed(ipDic[ip][lf][f_name], ipDic[ip][lf][other_name]) = {}

\* C20, its case: the files are read, and the records of one address for
\* the two log files both hold the counter 'break_in', one of them with the
\* list 'invalid_user'.
C20_Witness ==
    /\ pc = "report"
    /\ \E ip \in DOMAIN ipDic :
          /\ lf \in DOMAIN ipDic[ip]
          /\ DOMAIN ipDic[ip][lf] = {"a.log", "b.log"}
          /\ keys(ipDic[ip][lf]["a.log"]) = {"break_in", "invalid_user"}
          /\ keys(ipDic[ip][lf]["b.log"]) = {"break_in"}

=============================================================================
